---- MODULE Spec2Model ----
(***************************************************************************)
(* A model of src/python/kalman_tracker.py: the per-box Kalman filter      *)
(* (KalmanBoxTracker), the multi-object tracker built on it                *)
(* (MultiObjectTracker) and the IoU similarity it associates with.         *)
(*                                                                         *)
(* Numbers.  Pixel coordinates are integers.  The filter's float64 values  *)
(* are kept in fixed point, SCALE units to one pixel, rounding every       *)
(* product and quotient to the nearest unit.  The 8x8 matrices F, Q, P and *)
(* the 4x8 matrix H couple state component i (i = 0..3) only with its own  *)
(* velocity i+4, identically for the four components, so P is kept as the  *)
(* four entries P[i,i], P[i,i+4], P[i+4,i], P[i+4,i+4] shared by all i.    *)
(* An IoU value is kept as the exact fraction <<inter, union>>.            *)
(***************************************************************************)
EXTENDS Integers, Sequences, FiniteSets, TLC

VARIABLES
    mot,          \* the MultiObjectTracker object: configuration, trackers, next_id
    results,      \* the list returned by its last update() call
    atCall,       \* history: mot as its last update() call found it
    lastOp,       \* "init", "update" or "reset": the last call made on it
    calls,        \* history: number of update() calls made so far
    history,      \* history: detection lists fed since construction / reset()
    epoch,        \* history: number of reset() calls made so far
    issued,       \* history: <<epoch, id>> of every track ever created, in order
    misses,       \* history: id -> consecutive update() calls it went unmatched
    streak,       \* history: id -> consecutive update() calls, up to the last
                  \* one, that gave it a detection
    evicted,      \* history: ids deleted since construction / reset()
    lastMatched,  \* history: the matched pairs of the last update() call
    lastCreated,  \* history: the ids of the tracks the last update() call created
    fresh,        \* a tracker constructed anew at the last reset(), fed the same calls
    freshResults, \* the list returned by its last update() call
    preset,       \* history: how mot was constructed, with the arguments given
    kbt,          \* a standalone KalmanBoxTracker
    kops,         \* history: number of calls made on kbt
    kerr,         \* history: the exception a call on kbt raised, or "none"
    ba, bb,       \* inputs of a standalone _iou call
    iouOut,       \* its result, or "none" before the call
    matchOut,     \* the matched pairs when ba is offered to a track made from bb
    gm,           \* an update() call run statement by statement through its
                  \* greedy matching loop: position, matrix, pairs recorded
    ms,           \* a MaskSmoother object: configuration, _prev_mask, _shape
    msOut,        \* the mask its last update() call returned
    msLog,        \* history: the last call on ms, its input, ms and msOut
                  \* before it, the number of calls with a new input
    sms,          \* a StereoMaskSmoother object: its left and right MaskSmoother
    smsOut,       \* the pair its last update() call returned
    smsLog,       \* history: the last call on sms, its input, sms before it
    solo,         \* two standalone MaskSmoother objects, each fed the non-None
                  \* masks of one side
    soloOut       \* what their last update() calls returned

vars == <<mot, results, atCall, lastOp, calls, history, epoch, issued, misses, streak, evicted,
          lastMatched, lastCreated, fresh, freshResults, preset, kbt, kops, kerr, ba, bb,
          iouOut,
          matchOut, gm, ms, msOut, msLog, sms, smsOut, smsLog, solo, soloOut>>

motVars == <<mot, results, atCall, lastOp, calls, history, epoch, issued, misses, streak,
            evicted,
             lastMatched, lastCreated, fresh, freshResults, preset>>
kbtVars == <<kbt, kops, kerr>>
iouVars == <<ba, bb, iouOut, matchOut>>
loopVars == <<gm>>
maskVars == <<ms, msOut, msLog>>
stereoVars == <<sms, smsOut, smsLog, solo, soloOut>>
auxVars == <<loopVars, maskVars, stereoVars>>

----------------------------------------------------------------------------
(* Bounds of the exploration *)

MaxCalls == 3        \* update() calls per behaviour
MaxKOps == 4         \* predict()/update() calls on the standalone filter
MaxKCoord == 2       \* coordinates 0..MaxKCoord of the boxes fed to it
MaxCoord == 2        \* coordinates 0..MaxCoord for the standalone _iou inputs
MaxMaskCalls == 2    \* MaskSmoother.update() calls whose input is a new one
MaxStereoCalls == 2  \* StereoMaskSmoother.update() calls
MaxPairs == 4        \* pairs kept of the list a matching loop appends to

----------------------------------------------------------------------------
(* Arithmetic *)

SCALE == 1000

\* a sequence given by a rule, evaluated once
Materialize(s) == s \o <<>>

Max(a, b) == IF a >= b THEN a ELSE b
Min(a, b) == IF a <= b THEN a ELSE b

Abs(a) == IF a >= 0 THEN a ELSE -a
Sign(a) == IF a >= 0 THEN 1 ELSE -1

\* <<q, r>> with a * b = q * c + r and 0 <= r < c, for a, b >= 0 and c > 0,
\* computed bit by bit of b so that no intermediate value leaves 32 bits
DoubleStep(qr, a, bit, c) ==
    << 2 * qr[1] + (2 * qr[2] + bit * a) \div c, (2 * qr[2] + bit * a) % c >>

RECURSIVE MulDivNat(_, _, _)
MulDivNat(a, b, c) ==
    IF a = 0 \/ b = 0 THEN <<0, 0>>
    ELSE DoubleStep(MulDivNat(a, b \div 2, c), a, b % 2, c)

Nearest(qr, c) == qr[1] + (IF 2 * qr[2] >= c THEN 1 ELSE 0)

\* a * b / c rounded to the nearest integer (c > 0)
MulDiv(a, b, c) == Sign(a) * Sign(b) * Nearest(MulDivNat(Abs(a), Abs(b), c), c)

\* Python int() of the real number n / d (d > 0): truncation toward zero
IntOf(n, d) == IF n >= 0 THEN n \div d ELSE -((-n) \div d)

\* fractions <<num, den>> with den > 0
RatLess(p, q) == p[1] * q[2] < q[1] * p[2]

----------------------------------------------------------------------------
(* MultiObjectTracker._iou *)

\* mutant: the overlap is divided by the smaller box's area
iou_smaller(bbox1, bbox2) ==
    LET x1 == Max(bbox1[1], bbox2[1])
        y1 == Max(bbox1[2], bbox2[2])
        x2 == Min(bbox1[3], bbox2[3])
        y2 == Min(bbox1[4], bbox2[4])
        inter == Max(0, x2 - x1) * Max(0, y2 - y1)
        area1 == (bbox1[3] - bbox1[1]) * (bbox1[4] - bbox1[2])
        area2 == (bbox2[3] - bbox2[1]) * (bbox2[4] - bbox2[2])
        smaller == Min(area1, area2)
    IN  IF smaller > 0 THEN <<inter, smaller>> ELSE <<0, 1>>

\* mutant: the product of the intersection's sides is clamped, not each side
iou_clampproduct(bbox1, bbox2) ==
    LET x1 == Max(bbox1[1], bbox2[1])
        y1 == Max(bbox1[2], bbox2[2])
        x2 == Min(bbox1[3], bbox2[3])
        y2 == Min(bbox1[4], bbox2[4])
        inter == Max(0, (x2 - x1) * (y2 - y1))
        area1 == (bbox1[3] - bbox1[1]) * (bbox1[4] - bbox1[2])
        area2 == (bbox2[3] - bbox2[1]) * (bbox2[4] - bbox2[2])
        union == area1 + area2 - inter
    IN  IF union > 0 THEN <<inter, union>> ELSE <<0, 1>>

\* mutant: the intersection's sides are not clamped at 0
iou_noclamp(bbox1, bbox2) ==
    LET x1 == Max(bbox1[1], bbox2[1])
        y1 == Max(bbox1[2], bbox2[2])
        x2 == Min(bbox1[3], bbox2[3])
        y2 == Min(bbox1[4], bbox2[4])
        inter == (x2 - x1) * (y2 - y1)
        area1 == (bbox1[3] - bbox1[1]) * (bbox1[4] - bbox1[2])
        area2 == (bbox2[3] - bbox2[1]) * (bbox2[4] - bbox2[2])
        union == area1 + area2 - inter
    IN  IF union > 0 THEN <<inter, union>> ELSE <<0, 1>>

iou(bbox1, bbox2) ==
    LET x1 == Max(bbox1[1], bbox2[1])
        y1 == Max(bbox1[2], bbox2[2])
        x2 == Min(bbox1[3], bbox2[3])
        y2 == Min(bbox1[4], bbox2[4])
        inter == Max(0, x2 - x1) * Max(0, y2 - y1)
        area1 == (bbox1[3] - bbox1[1]) * (bbox1[4] - bbox1[2])
        area2 == (bbox2[3] - bbox2[1]) * (bbox2[4] - bbox2[2])
        union == area1 + area2 - inter
    IN  IF union > 0 THEN <<inter, union>> ELSE <<0, 1>>

----------------------------------------------------------------------------
(* KalmanBoxTracker *)

\* [cx, cy, w, h] of a bbox, in SCALE units
Measure(bbox) ==
    << ((bbox[1] + bbox[3]) * SCALE) \div 2,
       ((bbox[2] + bbox[4]) * SCALE) \div 2,
       (bbox[3] - bbox[1]) * SCALE,
       (bbox[4] - bbox[2]) * SCALE >>

KalmanBoxTracker(bbox, process_noise, measurement_noise) ==
    [ pos |-> Measure(bbox),
      vel |-> <<0, 0, 0, 0>>,
      Ppp |-> 100 * SCALE,
      Ppv |-> 0,
      Pvp |-> 0,
      Pvv |-> 100 * 10 * SCALE,
      Qp  |-> process_noise,
      Qv  |-> process_noise * 2,
      R   |-> measurement_noise,
      time_since_update |-> 0,
      hits |-> 1,
      age |-> 0 ]

\* mutant: the centre is taken for the top-left corner
state_to_bbox_corner(k) ==
    LET cx == k.pos[1]
        cy == k.pos[2]
        w  == Max(1 * SCALE, k.pos[3])
        h  == Max(1 * SCALE, k.pos[4])
    IN  << IntOf(cx, SCALE), IntOf(cy, SCALE),
           IntOf(cx + w, SCALE), IntOf(cy + h, SCALE) >>

state_to_bbox(k) ==
    LET cx == k.pos[1]
        cy == k.pos[2]
        w  == Max(1 * SCALE, k.pos[3])
        h  == Max(1 * SCALE, k.pos[4])
    IN  << IntOf(2 * cx - w, 2 * SCALE),
           IntOf(2 * cy - h, 2 * SCALE),
           IntOf(2 * cx + w, 2 * SCALE),
           IntOf(2 * cy + h, 2 * SCALE) >>

\* mutant: age is not incremented
predict_noage(k) ==
    [ k EXCEPT
        !.pos = <<k.pos[1] + k.vel[1], k.pos[2] + k.vel[2],
                  k.pos[3] + k.vel[3], k.pos[4] + k.vel[4]>>,
        !.Ppp = k.Ppp + k.Ppv + k.Pvp + k.Pvv + k.Qp,
        !.Ppv = k.Ppv + k.Pvv,
        !.Pvp = k.Pvp + k.Pvv,
        !.Pvv = k.Pvv + k.Qv,
        !.time_since_update = k.time_since_update + 1 ]

predict(k) ==
    [ k EXCEPT
        !.pos = <<k.pos[1] + k.vel[1], k.pos[2] + k.vel[2],
                  k.pos[3] + k.vel[3], k.pos[4] + k.vel[4]>>,
        !.Ppp = k.Ppp + k.Ppv + k.Pvp + k.Pvv + k.Qp,
        !.Ppv = k.Ppv + k.Pvv,
        !.Pvp = k.Pvp + k.Pvv,
        !.Pvv = k.Pvv + k.Qv,
        !.age = k.age + 1,
        !.time_since_update = k.time_since_update + 1 ]

\* S = H P H^T + R is S * I(4); K = P H^T S^-1 has the entries Ppp / S (rows
\* 0..3) and Pvp / S (rows 4..7), applied here as exact fractions
Correct(k, y, S) ==
    [ k EXCEPT
        !.pos = [i \in 1..4 |-> k.pos[i] + MulDiv(k.Ppp, y[i], S)],
        !.vel = [i \in 1..4 |-> k.vel[i] + MulDiv(k.Pvp, y[i], S)],
        !.Ppp = k.Ppp - MulDiv(k.Ppp, k.Ppp, S),
        !.Ppv = k.Ppv - MulDiv(k.Ppp, k.Ppv, S),
        !.Pvp = k.Pvp - MulDiv(k.Pvp, k.Ppp, S),
        !.Pvv = k.Pvv - MulDiv(k.Pvp, k.Ppv, S),
        !.time_since_update = 0,
        !.hits = k.hits + 1 ]

Innovation(k, z) == <<z[1] - k.pos[1], z[2] - k.pos[2], z[3] - k.pos[3], z[4] - k.pos[4]>>

\* mutant: hits is not incremented
update_nohits(k, bbox) ==
    [Correct(k, Innovation(k, Measure(bbox)), k.Ppp + k.R) EXCEPT !.hits = k.hits]

\* mutant: time_since_update is not reset
update_stale(k, bbox) ==
    [Correct(k, Innovation(k, Measure(bbox)), k.Ppp + k.R)
        EXCEPT !.time_since_update = k.time_since_update]

update(k, bbox) == Correct(k, Innovation(k, Measure(bbox)), k.Ppp + k.R)

----------------------------------------------------------------------------
(* MultiObjectTracker *)

MultiObjectTracker(max_age, min_hits, iou_threshold, process_noise, measurement_noise) ==
    [ max_age |-> max_age,
      min_hits |-> min_hits,
      iou_threshold |-> iou_threshold,
      process_noise |-> process_noise,
      measurement_noise |-> measurement_noise,
      trackers |-> <<>>,
      next_id |-> 0 ]

\* the keys of self.trackers
TrackIds(trks) == {trks[j].id : j \in 1..Len(trks)}

\* The n x m iou_matrix is kept flat, in row-major order, as numpy stores it:
\* cell (det_idx, track_idx), both from 1, is entry (det_idx - 1) * m + track_idx.
Row(flat, m) == ((flat - 1) \div m) + 1
Col(flat, m) == ((flat - 1) % m) + 1

\* mutant: only the row of the matched detection is zeroed
ZeroOut_rowonly(M, m, det_idx, track_idx) ==
    Materialize([f \in 1..Len(M) |->
        IF Row(f, m) = det_idx THEN <<0, 1>> ELSE M[f]])

\* mutant: only the column of the matched track is zeroed
ZeroOut_colonly(M, m, det_idx, track_idx) ==
    Materialize([f \in 1..Len(M) |->
        IF Col(f, m) = track_idx THEN <<0, 1>> ELSE M[f]])

\* iou_matrix[det_idx, :] = 0 ; iou_matrix[:, track_idx] = 0
ZeroOut(M, m, det_idx, track_idx) ==
    Materialize([f \in 1..Len(M) |->
        IF Row(f, m) = det_idx \/ Col(f, m) = track_idx THEN <<0, 1>> ELSE M[f]])

\* mutant: the flat index of the last maximal entry
ArgMax_last(M) ==
    CHOOSE f \in 1..Len(M) :
        /\ \A g \in 1..Len(M) : ~RatLess(M[f], M[g])
        /\ \A g \in (f + 1)..Len(M) : RatLess(M[g], M[f])

\* iou_matrix.argmax(): the flat index of the first maximal entry
ArgMax(M) ==
    CHOOSE f \in 1..Len(M) :
        /\ \A g \in 1..Len(M) : ~RatLess(M[f], M[g])
        /\ \A g \in 1..(f - 1) : RatLess(M[g], M[f])

\* the "while True" loop of _match_detections; matched pairs are
\* <<detection index (from 1), track id>>
RECURSIVE GreedyMatching(_, _, _, _, _)
GreedyIteration(M, m, track_ids, iou_threshold, matched, f) ==
    IF RatLess(M[f], iou_threshold) THEN matched
    ELSE GreedyMatching(ZeroOut(M, m, Row(f, m), Col(f, m)), m, track_ids,
                        iou_threshold,
                        Append(matched, <<Row(f, m), track_ids[Col(f, m)]>>))

GreedyMatching(M, m, track_ids, iou_threshold, matched) ==
    IF Len(M) = 0 THEN matched
    ELSE GreedyIteration(M, m, track_ids, iou_threshold, matched, ArgMax(M))

\* "return matched, list(unmatched_dets), list(unmatched_tracks)"
MatchResult(matched, all_dets, all_ids) ==
    [ matched |-> matched,
      unmatched_dets |->
          SelectSeq(all_dets,
                    LAMBDA i : \A p \in 1..Len(matched) : matched[p][1] # i),
      unmatched_tracks |->
          {t \in all_ids : \A p \in 1..Len(matched) : matched[p][2] # t} ]

IouMatrix(detections, trks) ==
    Materialize([f \in 1..(Len(detections) * Len(trks)) |->
        iou(detections[Row(f, Len(trks))].bbox,
            state_to_bbox(trks[Col(f, Len(trks))].tracker))])

match_detections(self, detections) ==
    IF Len(detections) = 0 \/ Len(self.trackers) = 0
    THEN MatchResult(<<>>, [i \in 1..Len(detections) |-> i],
                     TrackIds(self.trackers))
    ELSE MatchResult(
             GreedyMatching(IouMatrix(detections, self.trackers),
                            Len(self.trackers),
                            [j \in 1..Len(self.trackers) |-> self.trackers[j].id],
                            self.iou_threshold, <<>>),
             [i \in 1..Len(detections) |-> i],
             TrackIds(self.trackers))

\* "for track_id, (tracker, _, _) in self.trackers.items(): tracker.predict()"
PredictAll(trks) ==
    Materialize([j \in 1..Len(trks) |->
        [trks[j] EXCEPT !.tracker = predict(trks[j].tracker)]])

\* mutant: the track is looked up under the detection's index
RECURSIVE UpdateMatched_bydet(_, _, _)
UpdateMatched_bydet(trks, matched, detections) ==
    IF matched = <<>> THEN trks
    ELSE LET det == detections[Head(matched)[1]]
             tid == Head(matched)[1] - 1
         IN  UpdateMatched_bydet(
                 Materialize([j \in 1..Len(trks) |->
                     IF trks[j].id = tid
                     THEN [ id |-> tid,
                            tracker |-> update(trks[j].tracker, det.bbox),
                            class_name |-> det.class_name,
                            confidence |-> det.confidence ]
                     ELSE trks[j]]),
                 Tail(matched), detections)

\* mutant: a matched track keeps the class_name it had
RECURSIVE UpdateMatched_keeplabel(_, _, _)
UpdateMatched_keeplabel(trks, matched, detections) ==
    IF matched = <<>> THEN trks
    ELSE LET det == detections[Head(matched)[1]]
             tid == Head(matched)[2]
         IN  UpdateMatched_keeplabel(
                 Materialize([j \in 1..Len(trks) |->
                     IF trks[j].id = tid
                     THEN [ id |-> tid,
                            tracker |-> update(trks[j].tracker, det.bbox),
                            class_name |-> trks[j].class_name,
                            confidence |-> det.confidence ]
                     ELSE trks[j]]),
                 Tail(matched), detections)

\* "for det_idx, track_id in matched: ..." (every pair names another track)
RECURSIVE UpdateMatched(_, _, _)
UpdateMatched(trks, matched, detections) ==
    IF matched = <<>> THEN trks
    ELSE LET det == detections[Head(matched)[1]]
             tid == Head(matched)[2]
         IN  UpdateMatched(
                 Materialize([j \in 1..Len(trks) |->
                     IF trks[j].id = tid
                     THEN [ id |-> tid,
                            tracker |-> update(trks[j].tracker, det.bbox),
                            class_name |-> det.class_name,
                            confidence |-> det.confidence ]
                     ELSE trks[j]]),
                 Tail(matched), detections)

\* mutant: next_id is not incremented
RECURSIVE CreateNew_sameid(_, _, _, _, _)
CreateNew_sameid(self, trks, nid, unmatched_dets, detections) ==
    IF unmatched_dets = <<>> THEN <<trks, nid>>
    ELSE LET det == detections[Head(unmatched_dets)]
             new == [ id |-> nid,
                      tracker |-> KalmanBoxTracker(det.bbox, self.process_noise,
                                                   self.measurement_noise),
                      class_name |-> det.class_name,
                      confidence |-> det.confidence ]
         IN  CreateNew_sameid(self, Append(trks, new), nid,
                              Tail(unmatched_dets), detections)

\* "for det_idx in unmatched_dets: ..."; returns <<trackers, next_id>>
RECURSIVE CreateNew(_, _, _, _, _)
CreateNew(self, trks, nid, unmatched_dets, detections) ==
    IF unmatched_dets = <<>> THEN <<trks, nid>>
    ELSE LET det == detections[Head(unmatched_dets)]
             new == [ id |-> nid,
                      tracker |-> KalmanBoxTracker(det.bbox, self.process_noise,
                                                   self.measurement_noise),
                      class_name |-> det.class_name,
                      confidence |-> det.confidence ]
         IN  CreateNew(self, Append(trks, new), nid + 1,
                       Tail(unmatched_dets), detections)

\* mutant: a track is kept one call longer
IsStale_late(self, trk) == trk.tracker.time_since_update > self.max_age + 1

\* "if tracker.time_since_update > self.max_age: to_remove.append(track_id)"
IsStale(self, trk) == trk.tracker.time_since_update > self.max_age

ToRemove(self, trks, unmatched_tracks) ==
    {trks[j].id : j \in {i \in 1..Len(trks) :
                           trks[i].id \in unmatched_tracks /\ IsStale(self, trks[i])}}

\* mutants: a track needs more than min_hits hits; a track matched in this
\* call is not reported before it has min_hits hits
IsReported_strict(self, trk) ==
    trk.tracker.hits > self.min_hits \/ trk.tracker.time_since_update = 0

IsReported_confirmed(self, trk) == trk.tracker.hits >= self.min_hits

\* mutant: only a track that got a detection in this call is reported
IsReported_matchedonly(self, trk) == trk.tracker.time_since_update = 0

\* "if tracker.hits >= self.min_hits or tracker.time_since_update == 0"
IsReported(self, trk) ==
    trk.tracker.hits >= self.min_hits \/ trk.tracker.time_since_update = 0

TrackedBox(trk) ==
    [ class_name |-> trk.class_name,
      confidence |-> trk.confidence,
      bbox |-> state_to_bbox(trk.tracker),
      track_id |-> trk.id,
      age |-> trk.tracker.age,
      hits |-> trk.tracker.hits ]

RECURSIVE MakeResults(_, _)
MakeResults(self, trks) ==
    IF trks = <<>> THEN <<>>
    ELSE IF IsReported(self, Head(trks))
         THEN <<TrackedBox(Head(trks))>> \o MakeResults(self, Tail(trks))
         ELSE MakeResults(self, Tail(trks))

\* MultiObjectTracker.update: the object after the call, the returned list,
\* and the matched pairs and removed ids of the call
Finish(self, remaining, next_id, matched, new_ids, to_remove) ==
    [ self |-> [self EXCEPT !.trackers = remaining, !.next_id = next_id],
      results |-> MakeResults(self, remaining),
      matched |-> matched,
      created |-> new_ids,
      removed |-> to_remove ]

RemoveStale(self, created, mt, new_ids, to_remove) ==
    Finish(self, SelectSeq(created[1], LAMBDA t : t.id \notin to_remove),
           created[2], mt.matched, new_ids, to_remove)

AfterCreate(self, created, mt, old_len) ==
    RemoveStale(self, created, mt,
                [j \in 1..(Len(created[1]) - old_len) |-> created[1][old_len + j].id],
                ToRemove(self, created[1], mt.unmatched_tracks))

AfterMatching(self, predicted, detections, mt) ==
    AfterCreate(self,
                CreateNew(self, UpdateMatched(predicted, mt.matched, detections),
                          self.next_id, mt.unmatched_dets, detections),
                mt, Len(predicted))

AfterPredict(self, predicted, detections) ==
    AfterMatching(self, predicted, detections,
                  match_detections([self EXCEPT !.trackers = predicted],
                                   detections))

MultiObjectTracker_update(self, detections) ==
    AfterPredict(self, PredictAll(self.trackers), detections)

\* mutant: the id counter survives reset()
MultiObjectTracker_reset_keepid(self) == [self EXCEPT !.trackers = <<>>]

MultiObjectTracker_reset(self) ==
    [self EXCEPT !.trackers = <<>>, !.next_id = 0]

----------------------------------------------------------------------------
(* The inputs explored *)

DefaultMaxAge == 5
DefaultMinHits == 2
DefaultIouThreshold == <<3, 10>>           \* 0.3
DefaultProcessNoise == SCALE \div 10       \* 0.1
DefaultMeasurementNoise == SCALE \div 2    \* 0.5

\* confidence is kept in hundredths
DetA == [bbox |-> <<100, 100, 200, 200>>, class_name |-> "person", confidence |-> 90]
DetB == [bbox |-> <<105, 105, 205, 205>>, class_name |-> "car", confidence |-> 80]
DetC == [bbox |-> <<300, 300, 400, 400>>, class_name |-> "car", confidence |-> 70]
DetZ == [bbox |-> <<0, 0, 0, 0>>, class_name |-> "dot", confidence |-> 60]
Dets == {DetA, DetB, DetC, DetZ}

DetLists ==
    {<<>>} \cup {<<d>> : d \in Dets}
    \cup { <<DetA, DetC>>, <<DetC, DetA>>, <<DetA, DetB>>, <<DetB, DetA>>,
           <<DetA, DetZ>>, <<DetZ, DetA>>, <<DetA, DetA>> }

\* <<max_age, min_hits, iou_threshold>> of the trackers constructed: the
\* defaults, small values of max_age and min_hits so that eviction and
\* confirmation happen within MaxCalls, and the largest threshold an IoU reaches
Configs == { <<DefaultMaxAge, DefaultMinHits, DefaultIouThreshold>>,
             <<0, 1, DefaultIouThreshold>>,
             <<1, DefaultMinHits, DefaultIouThreshold>>,
             <<1, DefaultMinHits + 1, DefaultIouThreshold>>,
             <<1, DefaultMinHits, <<1, 1>> >> }

HasArea(bbox) == bbox[3] > bbox[1] /\ bbox[4] > bbox[2]

----------------------------------------------------------------------------
(* MaskSmoother.  A mask is [shape |-> <<h, w>>, px |-> its pixels in
   row-major order].  Python's None is <<>> for a class_id, a _prev_mask or
   a _shape, and NoneMask for a mask.  The float32 pixels of binary and
   smoothed are kept in fixed point, 1.0 = SCALE, each blend rounded to the
   nearest unit. *)

NoneMask == [shape |-> <<>>, px |-> <<>>]

MaskSmoother(alpha, threshold, morph_kernel_size) ==
    [ alpha |-> alpha,
      threshold |-> threshold,
      morph_kernel_size |-> morph_kernel_size,
      prev_mask |-> <<>>,
      shape |-> <<>> ]

\* mutant: without class_id every non-zero pixel is taken
Binary_nonzero(mask, class_id) ==
    Materialize([p \in 1..Len(mask.px) |->
        IF class_id # <<>>
        THEN (IF mask.px[p] = class_id[1] THEN SCALE ELSE 0)
        ELSE (IF mask.px[p] # 0 THEN SCALE ELSE 0)])

\* (mask == class_id) or (mask > 0), as float32
Binary(mask, class_id) ==
    Materialize([p \in 1..Len(mask.px) |->
        IF class_id # <<>>
        THEN (IF mask.px[p] = class_id[1] THEN SCALE ELSE 0)
        ELSE (IF mask.px[p] > 0 THEN SCALE ELSE 0)])

\* n / d rounded to the nearest integer, d > 0
RoundDiv(n, d) == (2 * n + d) \div (2 * d)

\* w_new * binary + w_old * prev, for one pixel
Ema(w_new, w_old, b, prev) == RoundDiv(w_new * b + w_old * prev, SCALE)

\* cv2.dilate / cv2.erode of a one-row image of 0 and 255.  The centre row of
\* an elliptical kernel of odd size k is full, so a pixel sees the pixels at
\* distance <= r = k \div 2 in its row; pixels outside the image do not count.
\* (x \in {px} evaluates the argument once.)
LineDilate(px, r) ==
    CHOOSE out \in
        { Materialize([p \in 1..Len(x) |->
              IF \E q \in 1..Len(x) : Abs(q - p) <= r /\ x[q] = 255
              THEN 255 ELSE 0]) : x \in {px} } : TRUE

LineErode(px, r) ==
    CHOOSE out \in
        { Materialize([p \in 1..Len(x) |->
              IF \A q \in 1..Len(x) : Abs(q - p) <= r => x[q] = 255
              THEN 255 ELSE 0]) : x \in {px} } : TRUE

\* cv2.morphologyEx(result, cv2.MORPH_CLOSE, kernel): dilate, then erode
MorphClose(px, r) == LineErode(LineDilate(px, r), r)

\* cv2.morphologyEx(result, cv2.MORPH_OPEN, kernel): erode, then dilate
MorphOpen(px, r) == LineDilate(LineErode(px, r), r)

\* "if self._morph_kernel is not None": close, then open
Cleanup(px, morph_kernel_size) ==
    IF morph_kernel_size > 0
    THEN MorphOpen(MorphClose(px, morph_kernel_size \div 2), morph_kernel_size \div 2)
    ELSE px

\* (smoothed >= self.threshold).astype(np.uint8) * 255
Threshold(smoothed, threshold) ==
    CHOOSE out \in
        { Materialize([p \in 1..Len(x) |-> IF x[p] >= threshold THEN 255 ELSE 0]) :
              x \in {smoothed} } : TRUE

\* "if self._prev_mask is None or self._shape != binary.shape"
Bootstraps(self, mask) == self.prev_mask = <<>> \/ self.shape # mask.shape

\* self.alpha * binary + (1 - self.alpha) * self._prev_mask
Blend(self, binary, prev) ==
    Materialize([p \in 1..Len(binary) |->
        Ema(self.alpha, SCALE - self.alpha, binary[p], prev[p])])

\* the object and the returned mask, from the smoothed pixels
Smoothed(self, mask, smoothed) ==
    [ self |-> [self EXCEPT !.prev_mask = smoothed, !.shape = mask.shape],
      out |-> [shape |-> mask.shape,
               px |-> Cleanup(Threshold(smoothed, self.threshold),
                              self.morph_kernel_size)] ]

\* mutant: a bootstrap starts from an all-zero prior
MaskSmoother_update_zeroboot(self, mask, class_id) ==
    LET binary == Binary(mask, class_id)
    IN  Smoothed(self, mask,
                 Blend(self, binary,
                       IF Bootstraps(self, mask)
                       THEN [p \in 1..Len(binary) |-> 0]
                       ELSE self.prev_mask))

\* mutant: the binary mask, not the blend, is stored as the prior
MaskSmoother_update_storebinary(self, mask, class_id) ==
    LET binary == Binary(mask, class_id)
        r == Smoothed(self, mask,
                      Blend(self, binary,
                            IF Bootstraps(self, mask) THEN binary
                            ELSE self.prev_mask))
    IN  [r EXCEPT !.self.prev_mask = binary]

\* mutant: the weighted prior is subtracted
MaskSmoother_update_minus(self, mask, class_id) ==
    LET binary == Binary(mask, class_id)
        prev == IF Bootstraps(self, mask) THEN binary ELSE self.prev_mask
    IN  Smoothed(self, mask,
                 Materialize([p \in 1..Len(binary) |->
                     Ema(self.alpha, self.alpha - SCALE, binary[p], prev[p])]))

MaskSmoother_update(self, mask, class_id) ==
    LET binary == Binary(mask, class_id)
    IN  Smoothed(self, mask,
                 Blend(self, binary,
                       IF Bootstraps(self, mask) THEN binary
                       ELSE self.prev_mask))

MaskSmoother_reset(self) == [self EXCEPT !.prev_mask = <<>>, !.shape = <<>>]

\* presets.get(smoothing, presets["medium"]), then MaskSmoother(**params)
create_mask_smoother(smoothing) ==
    LET presets ==
            [ low |-> [alpha |-> (85 * SCALE) \div 100,
                       threshold |-> (4 * SCALE) \div 10, morph_kernel_size |-> 3],
              medium |-> [alpha |-> (7 * SCALE) \div 10,
                          threshold |-> SCALE \div 2, morph_kernel_size |-> 5],
              high |-> [alpha |-> SCALE \div 2,
                        threshold |-> SCALE \div 2, morph_kernel_size |-> 7] ]
        params == IF smoothing \in DOMAIN presets THEN presets[smoothing]
                  ELSE presets["medium"]
    IN  MaskSmoother(params.alpha, params.threshold, params.morph_kernel_size)

----------------------------------------------------------------------------
(* StereoMaskSmoother *)

\* self.left = MaskSmoother(**kwargs); self.right = MaskSmoother(**kwargs)
StereoMaskSmoother(alpha, threshold, morph_kernel_size) ==
    [ left |-> MaskSmoother(alpha, threshold, morph_kernel_size),
      right |-> MaskSmoother(alpha, threshold, morph_kernel_size) ]

\* "self.left.update(left_mask, class_id) if left_mask is not None else None"
SideUpdate(side, mask, class_id) ==
    IF mask # NoneMask THEN MaskSmoother_update(side, mask, class_id)
    ELSE [self |-> side, out |-> NoneMask]

StereoResult(l, r) ==
    [ self |-> [left |-> l.self, right |-> r.self], out |-> <<l.out, r.out>> ]

\* mutant: the right mask is smoothed against the left side's state
StereoMaskSmoother_update_shared(self, left_mask, right_mask, class_id) ==
    StereoResult(SideUpdate(self.left, left_mask, class_id),
                 SideUpdate(self.left, right_mask, class_id))

StereoMaskSmoother_update(self, left_mask, right_mask, class_id) ==
    StereoResult(SideUpdate(self.left, left_mask, class_id),
                 SideUpdate(self.right, right_mask, class_id))

StereoMaskSmoother_reset(self) ==
    [ left |-> MaskSmoother_reset(self.left),
      right |-> MaskSmoother_reset(self.right) ]

----------------------------------------------------------------------------
(* The tracker as a state machine: one action per public call *)

NoKbt == [op |-> "none"]

\* a newly constructed tracker, before any call
MotNew(self, how) ==
    /\ mot = self
    /\ preset = how
    /\ results = <<>>
    /\ atCall = self
    /\ lastOp = "init"
    /\ calls = 0
    /\ history = <<>>
    /\ epoch = 0
    /\ issued = <<>>
    /\ misses = <<>>
    /\ streak = <<>>
    /\ evicted = {}
    /\ lastMatched = <<>>
    /\ lastCreated = <<>>
    /\ fresh = mot
    /\ freshResults = <<>>

MotStart(max_age, min_hits, iou_threshold) ==
    MotNew(MultiObjectTracker(max_age, min_hits, iou_threshold,
                              DefaultProcessNoise, DefaultMeasurementNoise),
           [via |-> "MultiObjectTracker"])

MotInit == \E c \in Configs : MotStart(c[1], c[2], c[3])
MotIdle == MotStart(DefaultMaxAge, DefaultMinHits, DefaultIouThreshold)

\* a newly constructed smoother, before any call
MaskStart(self) ==
    /\ ms = self
    /\ msOut = NoneMask
    /\ msLog = [ op |-> "init", calls |-> 0, input |-> <<NoneMask, <<>>>>,
                 before |-> self, outBefore |-> NoneMask, repeated |-> FALSE ]

MaskIdle == MaskStart(create_mask_smoother("medium"))

\* a newly constructed stereo smoother and two standalone smoothers with its
\* configuration, before any call
StereoStart(alpha, threshold, morph_kernel_size) ==
    /\ sms = StereoMaskSmoother(alpha, threshold, morph_kernel_size)
    /\ smsOut = <<NoneMask, NoneMask>>
    /\ smsLog = [ op |-> "init", calls |-> 0,
                  input |-> <<NoneMask, NoneMask, <<>>>>,
                  before |-> StereoMaskSmoother(alpha, threshold, morph_kernel_size) ]
    /\ solo = [ left |-> MaskSmoother(alpha, threshold, morph_kernel_size),
                right |-> MaskSmoother(alpha, threshold, morph_kernel_size) ]
    /\ soloOut = [left |-> NoneMask, right |-> NoneMask]

StereoIdle == StereoStart((7 * SCALE) \div 10, SCALE \div 2, 5)

NoGm == [pc |-> "none"]
LoopIdle == gm = NoGm
AuxIdle == LoopIdle /\ MaskIdle /\ StereoIdle

KbtIdle == kbt = NoKbt /\ kops = 0 /\ kerr = "none"
IouIdle ==
    ba = <<0, 0, 0, 0>> /\ bb = <<0, 0, 0, 0>> /\ iouOut = "none" /\ matchOut = "none"

Init == MotInit /\ KbtIdle /\ IouIdle /\ AuxIdle

\* misses after a call: 0 for a matched or new track, one more for an
\* unmatched track that was in the collection when the call began
NextMisses(before, after, matched) ==
    LET mids == {matched[p][2] : p \in 1..Len(matched)}
        old == TrackIds(before.trackers)
        ids == (DOMAIN misses) \cup TrackIds(after.trackers) \cup old
    IN  [i \in ids |->
            IF i \in mids THEN 0
            ELSE IF i \in old THEN misses[i] + 1
            ELSE IF i \in DOMAIN misses THEN misses[i]
            ELSE 0]

\* streak after a call: one more for a matched track, 1 for a new track, 0
\* for an unmatched track that was in the collection when the call began
NextStreak(before, after, matched) ==
    LET mids == {matched[p][2] : p \in 1..Len(matched)}
        old == TrackIds(before.trackers)
        ids == (DOMAIN streak) \cup TrackIds(after.trackers) \cup old
    IN  [i \in ids |->
            IF i \in mids THEN streak[i] + 1
            ELSE IF i \in old THEN 0
            ELSE IF i \in DOMAIN streak THEN streak[i]
            ELSE 1]

Update(detections) ==
    /\ calls < MaxCalls
    /\ \E r \in {MultiObjectTracker_update(mot, detections)} :
       \* update() is a function of the object and the list: equal objects
       \* need one evaluation
       \E f \in {IF fresh = mot THEN r
                  ELSE MultiObjectTracker_update(fresh, detections)} :
           /\ mot' = r.self
           /\ results' = r.results
           /\ atCall' = mot
           /\ lastMatched' = r.matched
           /\ evicted' = evicted \cup r.removed
           /\ misses' = NextMisses(mot, r.self, r.matched)
           /\ streak' = NextStreak(mot, r.self, r.matched)
           /\ lastCreated' = r.created
           /\ issued' = issued \o [k \in 1..Len(r.created) |-> <<epoch, r.created[k]>>]
           /\ fresh' = f.self
           /\ freshResults' = f.results
    /\ lastOp' = "update"
    /\ calls' = calls + 1
    /\ history' = Append(history, detections)
    /\ UNCHANGED <<epoch, preset, kbtVars, iouVars, auxVars>>

\* reset() of a tracker that never created a track changes nothing and is
\* left out
Reset ==
    /\ lastOp # "reset"
    /\ mot.next_id > 0
    /\ mot' = MultiObjectTracker_reset(mot)
    /\ lastOp' = "reset"
    /\ epoch' = epoch + 1
    /\ history' = <<>>
    /\ misses' = <<>>
    /\ streak' = <<>>
    /\ evicted' = {}
    /\ lastMatched' = <<>>
    /\ lastCreated' = <<>>
    /\ fresh' = MultiObjectTracker(mot.max_age, mot.min_hits, mot.iou_threshold,
                                   mot.process_noise, mot.measurement_noise)
    /\ freshResults' = <<>>
    /\ UNCHANGED <<results, atCall, calls, issued, preset, kbtVars, iouVars, auxVars>>

UpdateStep == \E detections \in DetLists : Update(detections)

Next == UpdateStep \/ Reset

Spec == Init /\ [][Next]_vars

\* the same tracker when reset() is never called
SpecNoReset == Init /\ [][UpdateStep]_vars

\* max_age values a caller may configure, "max_age: int" being stored as given:
\* a negative one, 0 and 1
MaxAges == {-1, 0, 1}

AgeInit == \E a \in MaxAges : MotStart(a, DefaultMinHits, DefaultIouThreshold)

InitAge == AgeInit /\ KbtIdle /\ IouIdle /\ AuxIdle
SpecAge == InitAge /\ [][Next]_vars

\* <<max_age, min_hits>> of trackers whose tracks are confirmed by their first
\* detection and outlive one or two missed frames
CoastConfigs == { <<1, 1>>, <<2, 1>> }

CoastInit == \E c \in CoastConfigs : MotStart(c[1], c[2], DefaultIouThreshold)

InitCoast == CoastInit /\ KbtIdle /\ IouIdle /\ AuxIdle
SpecCoast == InitCoast /\ [][Next]_vars

----------------------------------------------------------------------------
(* create_tracker *)

\* mutant: a name that is no preset gets the "low" preset
create_tracker_lowfallback(smoothing) ==
    LET presets ==
            [ low |-> [process_noise |-> (3 * SCALE) \div 10,
                       measurement_noise |-> SCALE \div 5, max_age |-> 3],
              medium |-> [process_noise |-> SCALE \div 10,
                          measurement_noise |-> SCALE \div 2, max_age |-> 5],
              high |-> [process_noise |-> SCALE \div 20,
                        measurement_noise |-> SCALE, max_age |-> 8] ]
        params == IF smoothing \in DOMAIN presets THEN presets[smoothing]
                  ELSE presets["low"]
    IN  MultiObjectTracker(params.max_age, DefaultMinHits, DefaultIouThreshold,
                           params.process_noise, params.measurement_noise)

\* presets.get(smoothing, presets["medium"]), then MultiObjectTracker(**params):
\* min_hits and iou_threshold keep their defaults
create_tracker(smoothing) ==
    LET presets ==
            [ low |-> [process_noise |-> (3 * SCALE) \div 10,
                       measurement_noise |-> SCALE \div 5, max_age |-> 3],
              medium |-> [process_noise |-> SCALE \div 10,
                          measurement_noise |-> SCALE \div 2, max_age |-> 5],
              high |-> [process_noise |-> SCALE \div 20,
                        measurement_noise |-> SCALE, max_age |-> 8] ]
        params == IF smoothing \in DOMAIN presets THEN presets[smoothing]
                  ELSE presets["medium"]
    IN  MultiObjectTracker(params.max_age, DefaultMinHits, DefaultIouThreshold,
                           params.process_noise, params.measurement_noise)

\* the argument lists of a create_tracker call: none, a preset's name, and a
\* name that is no preset
PresetArgs == {<<>>, <<"low">>, <<"medium">>, <<"high">>, <<"ultra">>}

\* "smoothing: str = 'medium'": the parameter's value when args are given
Smoothing(args) == IF args = <<>> THEN "medium" ELSE args[1]

PresetInit ==
    \E args \in PresetArgs :
        MotNew(create_tracker(Smoothing(args)),
               [via |-> "create_tracker", args |-> args])

InitPreset == PresetInit /\ KbtIdle /\ IouIdle /\ AuxIdle
SpecPreset == InitPreset /\ [][UpdateStep]_vars

----------------------------------------------------------------------------
(* A standalone KalmanBoxTracker: constructed from a bbox, then any calls *)

\* bboxes with x1 < x2 and y1 < y2, at non-negative pixel coordinates
KBoxes ==
    {b \in (0..MaxKCoord) \X (0..1) \X (0..MaxKCoord) \X (1..2) :
        b[1] < b[3] /\ b[4] = b[2] + 1}

KbtInit ==
    /\ \E b \in KBoxes :
          kbt = KalmanBoxTracker(b, DefaultProcessNoise, DefaultMeasurementNoise)
    /\ kops = 0
    /\ kerr = "none"

KbtPredict ==
    /\ kbt # NoKbt
    /\ kops < MaxKOps
    /\ kbt' = predict(kbt)
    /\ kops' = kops + 1
    /\ UNCHANGED <<kerr, motVars, iouVars, auxVars>>

\* S = H P H^T + R is the zero matrix: np.linalg.inv(S) raises LinAlgError
Singular(k) == k.Ppp + k.R = 0

\* update() raises before it assigns anything when S is singular
KbtUpdate ==
    /\ kbt # NoKbt
    /\ kops < MaxKOps
    /\ IF Singular(kbt)
       THEN kbt' = kbt /\ kerr' = "LinAlgError"
       ELSE (\E b \in KBoxes : kbt' = update(kbt, b)) /\ kerr' = kerr
    /\ kops' = kops + 1
    /\ UNCHANGED <<motVars, iouVars, auxVars>>

InitKbt == MotIdle /\ KbtInit /\ IouIdle /\ AuxIdle
NextKbt == KbtPredict \/ KbtUpdate
SpecKbt == InitKbt /\ [][NextKbt]_vars

\* measurement_noise values a caller may pass: zero, and the default
MeasurementNoises == {0, DefaultMeasurementNoise}

\* KalmanBoxTracker(bbox, process_noise, measurement_noise): __init__ stores
\* R = eye(4) * measurement_noise whatever the value is
KbtConstruct ==
    /\ kbt = NoKbt
    /\ \E b \in KBoxes, mn \in MeasurementNoises :
          kbt' = KalmanBoxTracker(b, DefaultProcessNoise, mn)
    /\ UNCHANGED <<kops, kerr, motVars, iouVars, auxVars>>

InitKbtNoise == MotIdle /\ KbtIdle /\ IouIdle /\ AuxIdle
NextKbtNoise == KbtConstruct \/ KbtPredict \/ KbtUpdate
SpecKbtNoise == InitKbtNoise /\ [][NextKbtNoise]_vars

----------------------------------------------------------------------------
(* A standalone _iou call on any two integer boxes, malformed ones included *)

IouBoxes == (0..MaxCoord) \X (0..MaxCoord) \X (0..MaxCoord) \X (0..MaxCoord)

IouInit ==
    ba \in IouBoxes /\ bb \in IouBoxes /\ iouOut = "none" /\ matchOut = "none"

IouCall ==
    /\ iouOut = "none"
    /\ iouOut' = iou(ba, bb)
    /\ UNCHANGED <<ba, bb, matchOut, motVars, kbtVars, auxVars>>

AsDetection(bbox) == [bbox |-> bbox, class_name |-> "box", confidence |-> 50]

\* update([bb]) on a new default tracker creates a track from bb; the next
\* call, update([ba]), offers ba to that track: matchOut is its matched list
IouMatch ==
    /\ iouOut # "none"
    /\ matchOut = "none"
    /\ \E t \in {MultiObjectTracker_update(mot, <<AsDetection(bb)>>).self} :
          matchOut' = MultiObjectTracker_update(t, <<AsDetection(ba)>>).matched
    /\ UNCHANGED <<ba, bb, iouOut, motVars, kbtVars, auxVars>>

InitIou == MotIdle /\ KbtIdle /\ IouInit /\ AuxIdle
NextIou == IouCall \/ IouMatch
SpecIou == InitIou /\ [][NextIou]_vars

----------------------------------------------------------------------------
(* One update() call followed statement by statement through the
   "while True" loop of _match_detections.  gm.matched is the list the loop
   appends to, kept up to its first MaxPairs pairs; gm.unmatched_dets and
   gm.unmatched_tracks are the two sets it discards from. *)

\* iou_threshold values a caller may configure
LoopThresholds == {DefaultIouThreshold, <<0, 1>>, <<-1, 10>>}

\* a tracker holding the tracks an update(created_from) call created, about
\* to be called with update(detections)
LoopCall(iou_threshold, created_from, detections) ==
    [ pc |-> "call",
      self |-> MultiObjectTracker_update(
                   MultiObjectTracker(DefaultMaxAge, DefaultMinHits, iou_threshold,
                                      DefaultProcessNoise, DefaultMeasurementNoise),
                   created_from).self,
      detections |-> detections,
      M |-> <<>>,
      track_ids |-> <<>>,
      matched |-> <<>>,
      unmatched_dets |-> {},
      unmatched_tracks |-> {} ]

LoopInit ==
    \E t \in LoopThresholds, x \in DetLists, y \in DetLists : gm = LoopCall(t, x, y)

\* update() predicts every track and enters _match_detections, which returns
\* at once without detections or without tracks and builds iou_matrix otherwise
MatchBegin ==
    /\ gm.pc = "call"
    /\ \E predicted \in {PredictAll(gm.self.trackers)} :
          IF Len(gm.detections) = 0 \/ Len(predicted) = 0
          THEN gm' = [gm EXCEPT !.pc = "done",
                                !.self = [gm.self EXCEPT !.trackers = predicted],
                                !.unmatched_dets = 1..Len(gm.detections),
                                !.unmatched_tracks = TrackIds(predicted)]
          ELSE gm' = [gm EXCEPT
                        !.pc = "test",
                        !.self = [gm.self EXCEPT !.trackers = predicted],
                        !.unmatched_dets = 1..Len(gm.detections),
                        !.unmatched_tracks = TrackIds(predicted),
                        !.M = IouMatrix(gm.detections, predicted),
                        !.track_ids = [j \in 1..Len(predicted) |-> predicted[j].id]]
    /\ UNCHANGED <<motVars, kbtVars, iouVars, maskVars, stereoVars>>

\* the head of the loop: "if iou_matrix.size == 0: break",
\* "if max_iou < self.iou_threshold: break"
MatchTest ==
    /\ gm.pc = "test"
    /\ IF Len(gm.M) = 0 \/ RatLess(gm.M[ArgMax(gm.M)], gm.self.iou_threshold)
       THEN gm' = [gm EXCEPT !.pc = "done"]
       ELSE gm' = [gm EXCEPT !.pc = "assign"]
    /\ UNCHANGED <<motVars, kbtVars, iouVars, maskVars, stereoVars>>

\* the rest of the loop body: record the pair, zero its row and column
MatchAssign ==
    /\ gm.pc = "assign"
    /\ \E f \in {ArgMax(gm.M)} :
          gm' = [gm EXCEPT
                   !.pc = "test",
                   !.matched =
                       IF Len(@) < MaxPairs
                       THEN Append(@, <<Row(f, Len(gm.track_ids)),
                                        gm.track_ids[Col(f, Len(gm.track_ids))]>>)
                       ELSE @,
                   !.unmatched_dets = @ \ {Row(f, Len(gm.track_ids))},
                   !.unmatched_tracks = @ \ {gm.track_ids[Col(f, Len(gm.track_ids))]},
                   !.M = ZeroOut(gm.M, Len(gm.track_ids),
                                 Row(f, Len(gm.track_ids)), Col(f, Len(gm.track_ids)))]
    /\ UNCHANGED <<motVars, kbtVars, iouVars, maskVars, stereoVars>>

InitMatch == MotIdle /\ KbtIdle /\ IouIdle /\ LoopInit /\ MaskIdle /\ StereoIdle
NextMatch == MatchBegin \/ MatchTest \/ MatchAssign
\* a running call keeps executing
SpecMatch == InitMatch /\ [][NextMatch]_vars /\ WF_vars(NextMatch)

----------------------------------------------------------------------------
(* A MaskSmoother: constructed, then update() and reset() calls.  A call
   that repeats the input of the update() call before it is not counted, so
   the same mask can be fed any number of times. *)

PixelValues == {0, 1, 2}
MaskShapes == {<<1, 1>>, <<1, 2>>}

MasksOf(shape) ==
    {[shape |-> shape, px |-> Materialize(f)] :
        f \in [1..(shape[1] * shape[2]) -> PixelValues]}

Masks == UNION {MasksOf(shape) : shape \in MaskShapes}

ClassIds == {<<>>, <<1>>}

\* the three presets, and explicit arguments: morphology disabled, with the
\* default alpha and with an alpha above 1
MaskConfigs ==
    { create_mask_smoother("low"), create_mask_smoother("medium"),
      create_mask_smoother("high"),
      MaskSmoother((7 * SCALE) \div 10, SCALE \div 2, 0),
      MaskSmoother(2 * SCALE, SCALE \div 2, 0) }

MaskInit == \E self \in MaskConfigs : MaskStart(self)

MsUpdate(mask, class_id) ==
    /\ \E repeated \in {msLog.op = "update" /\ msLog.input = <<mask, class_id>>} :
          /\ repeated \/ msLog.calls < MaxMaskCalls
          /\ msLog' = [ op |-> "update",
                        calls |-> IF repeated THEN msLog.calls ELSE msLog.calls + 1,
                        input |-> <<mask, class_id>>,
                        before |-> ms,
                        outBefore |-> msOut,
                        repeated |-> repeated ]
    /\ \E r \in {MaskSmoother_update(ms, mask, class_id)} :
          ms' = r.self /\ msOut' = r.out
    /\ UNCHANGED <<motVars, kbtVars, iouVars, loopVars, stereoVars>>

MsUpdateStep == \E mask \in Masks, class_id \in ClassIds : MsUpdate(mask, class_id)

\* update() once more with the input of the last update() call
MsRepeat == msLog.op = "update" /\ MsUpdate(msLog.input[1], msLog.input[2])

MsReset ==
    /\ msLog.op = "update"
    /\ ms' = MaskSmoother_reset(ms)
    /\ msLog' = [msLog EXCEPT !.op = "reset", !.before = ms,
                              !.outBefore = msOut, !.repeated = FALSE]
    /\ UNCHANGED <<msOut, motVars, kbtVars, iouVars, loopVars, stereoVars>>

InitMask == MotIdle /\ KbtIdle /\ IouIdle /\ LoopIdle /\ MaskInit /\ StereoIdle
NextMask == MsUpdateStep \/ MsReset
\* a caller that keeps feeding the same mask does call update() again
SpecMask == InitMask /\ [][NextMask]_vars /\ WF_vars(MsRepeat)

\* update() calls on masks of a signed integer type, with and without class_id
SignedPixelValues == {-1, 0, 1, 2}
SignedMasks ==
    {[shape |-> <<1, 2>>, px |-> <<a, b>>] : a, b \in SignedPixelValues}
SignedClassIds == {<<>>, <<0>>, <<-1>>}

MsSignedStep ==
    \E mask \in SignedMasks, class_id \in SignedClassIds : MsUpdate(mask, class_id)

SpecBinary == InitMask /\ [][MsSignedStep]_vars

----------------------------------------------------------------------------
(* A StereoMaskSmoother: constructed, then update() and reset() calls.  Each
   standalone smoother gets the calls of its side: update() when the side's
   mask is not None, and reset(). *)

\* the masks given for one side: None, and masks of two shapes
StereoMasks ==
    { NoneMask,
      [shape |-> <<1, 1>>, px |-> <<0>>],
      [shape |-> <<1, 1>>, px |-> <<1>>],
      [shape |-> <<1, 2>>, px |-> <<1, 0>>] }

\* (alpha, threshold, morph_kernel_size): the defaults, and no morphology
StereoConfigs ==
    { <<(7 * SCALE) \div 10, SCALE \div 2, 5>>,
      <<(7 * SCALE) \div 10, SCALE \div 2, 0>> }

StereoInit == \E c \in StereoConfigs : StereoStart(c[1], c[2], c[3])

SmsUpdate(left_mask, right_mask, class_id) ==
    /\ smsLog.calls < MaxStereoCalls
    /\ \E r \in {StereoMaskSmoother_update(sms, left_mask, right_mask, class_id)} :
          sms' = r.self /\ smsOut' = r.out
    /\ smsLog' = [ op |-> "update", calls |-> smsLog.calls + 1,
                   input |-> <<left_mask, right_mask, class_id>>,
                   before |-> sms ]
    /\ \E l \in {IF left_mask # NoneMask
                    THEN MaskSmoother_update(solo.left, left_mask, class_id)
                    ELSE [self |-> solo.left, out |-> soloOut.left]},
          r \in {IF right_mask # NoneMask
                    THEN MaskSmoother_update(solo.right, right_mask, class_id)
                    ELSE [self |-> solo.right, out |-> soloOut.right]} :
          /\ solo' = [left |-> l.self, right |-> r.self]
          /\ soloOut' = [left |-> l.out, right |-> r.out]
    /\ UNCHANGED <<motVars, kbtVars, iouVars, loopVars, maskVars>>

SmsUpdateStep ==
    \E left_mask \in StereoMasks, right_mask \in StereoMasks, class_id \in ClassIds :
        SmsUpdate(left_mask, right_mask, class_id)

SmsReset ==
    /\ smsLog.op = "update"
    /\ sms' = StereoMaskSmoother_reset(sms)
    /\ smsLog' = [smsLog EXCEPT !.op = "reset", !.before = sms]
    /\ solo' = [ left |-> MaskSmoother_reset(solo.left),
                 right |-> MaskSmoother_reset(solo.right) ]
    /\ UNCHANGED <<smsOut, soloOut, motVars, kbtVars, iouVars, loopVars, maskVars>>

InitStereo == MotIdle /\ KbtIdle /\ IouIdle /\ LoopIdle /\ MaskIdle /\ StereoInit
NextStereo == SmsUpdateStep \/ SmsReset
SpecStereo == InitStereo /\ [][NextStereo]_vars

----------------------------------------------------------------------------
(* Properties of the standalone filter *)

\* C9: in every state reached by constructing a KalmanBoxTracker from a
\* well-formed bbox and calling predict() and update(bbox) in any order, the
\* bbox returned by _state_to_bbox has x2 >= x1 + 1 and y2 >= y1 + 1.
C9_BboxSpansAPixel ==
    kbt # NoKbt =>
        /\ state_to_bbox(kbt)[3] >= state_to_bbox(kbt)[1] + 1
        /\ state_to_bbox(kbt)[4] >= state_to_bbox(kbt)[2] + 1

----------------------------------------------------------------------------
(* Properties of MultiObjectTracker *)

Ids == TrackIds(mot.trackers)
OutIds == {results[r].track_id : r \in 1..Len(results)}
Tracks == {mot.trackers[j] : j \in 1..Len(mot.trackers)}
Outs == {results[r] : r \in 1..Len(results)}

\* the list fed on each of k calls since the tracker was empty is <<d>>
FedOnly(d, k) == Len(history) = k /\ \A c \in 1..k : history[c] = <<d>>

\* C1: without reset(), a track matched to no detection in max_age + 1
\* consecutive update() calls is deleted during the (max_age + 1)-th of them
\* (not earlier, not later), and from then on its id is neither in the
\* collection nor in any output.
C1_EvictedAtMaxAgePlusOne ==
    lastOp = "update" =>
        \A i \in DOMAIN misses :
            /\ misses[i] >= mot.max_age + 1 => i \in evicted
            /\ i \in evicted =>
                  misses[i] = mot.max_age + 1 /\ i \notin Ids /\ i \notin OutIds

C1_Witness ==
    /\ lastOp = "update" /\ mot.max_age >= 1
    /\ \E i \in evicted : misses[i] = mot.max_age + 1 /\ i \notin OutIds

\* C2: after every update() call, a track of the collection is in the
\* returned list iff hits >= min_hits or time_since_update = 0, and every
\* returned entry is the entry of one track, once, with that track's id, hits
\* and age.
C2_OutputRule ==
    lastOp = "update" =>
        /\ \A t \in Tracks :
              (t.tracker.hits >= mot.min_hits \/ t.tracker.time_since_update = 0)
                  <=> t.id \in OutIds
        /\ \A r1, r2 \in 1..Len(results) :
              results[r1].track_id = results[r2].track_id => r1 = r2
        /\ \A o \in Outs : \E t \in Tracks :
              /\ t.id = o.track_id
              /\ t.tracker.hits = o.hits
              /\ t.tracker.age = o.age

C2_Witness ==
    /\ lastOp = "update"
    /\ \E t \in Tracks : t.id \notin OutIds
    /\ \E t \in Tracks : t.id \in OutIds /\ t.tracker.time_since_update > 0
    /\ \E t \in Tracks : t.id \in OutIds /\ t.tracker.hits < mot.min_hits

\* C3: over the whole life of the tracker, reset() calls included, no id is
\* given to two different tracks.
C3_IdsNeverReused ==
    \A p, q \in 1..Len(issued) : issued[p][2] = issued[q][2] => p = q

\* C3 as amended: between two reset() calls (or construction and the first
\* reset()) every new track gets an id larger than every id given before;
\* reset() restarts the ids at 0.
C3_IdsFreshBetweenResets ==
    /\ \A p, q \in 1..Len(issued) :
          (p < q /\ issued[p][1] = issued[q][1]) => issued[p][2] < issued[q][2]
    /\ \A q \in 1..Len(issued) :
          (\A p \in 1..(q - 1) : issued[p][1] # issued[q][1]) => issued[q][2] = 0

C3_Witness ==
    \E p, q \in 1..Len(issued) :
        /\ issued[p][1] = 0 /\ issued[q][1] = 0 /\ issued[p][2] < issued[q][2]
        /\ \E r \in 1..Len(issued) : issued[r][1] = 1

\* C4: reset() leaves an object equal to a newly constructed tracker with the
\* same configuration (no tracks, id counter 0), and every update() call after
\* it returns what the same calls return on such a new tracker.
C4_ResetIsFresh ==
    /\ lastOp = "reset" =>
          /\ mot.trackers = <<>> /\ mot.next_id = 0
          /\ mot = fresh
    /\ lastOp = "update" => results = freshResults /\ mot = fresh

C4_Witness ==
    /\ epoch >= 1 /\ lastOp = "update"
    /\ \E q \in 1..Len(issued) : issued[q][1] = 0
    /\ results # <<>> /\ results = freshResults

\* C5: with min_hits >= 2, a track is in the output of the call that created
\* it (hits = 1), and is in no later output of a call in which it went
\* unmatched while its hits is below min_hits.
C5_TentativeTrack ==
    (lastOp = "update" /\ mot.min_hits >= 2) =>
        /\ \A c \in 1..Len(lastCreated) :
              \E o \in Outs : o.track_id = lastCreated[c] /\ o.hits = 1
        /\ \A t \in Tracks :
              (misses[t.id] >= 1 /\ t.tracker.hits < mot.min_hits)
                  => t.id \notin OutIds

C5_Witness ==
    /\ lastOp = "update" /\ mot.min_hits >= 2
    /\ \E t \in Tracks : misses[t.id] >= 1 /\ t.tracker.hits < mot.min_hits
    /\ \E d \in Dets : history = << <<d>>, <<>> >>

\* C6: feeding the same single detection on each call to an empty tracker
\* keeps exactly one track, with hits = k after the k-th call, reported by
\* every call.
C6_SameDetection ==
    \A d \in Dets, k \in 1..MaxCalls + 1 :
        (lastOp = "update" /\ FedOnly(d, k)) =>
            /\ Len(mot.trackers) = 1 /\ mot.next_id = 1
            /\ mot.trackers[1].tracker.hits = k
            /\ OutIds = {mot.trackers[1].id}

\* C6 as amended: the same, for a detection whose bbox has positive width and
\* height (and 0 < iou_threshold <= 1).
C6_SameDetectionWithArea ==
    \A d \in Dets, k \in 1..MaxCalls + 1 :
        (lastOp = "update" /\ FedOnly(d, k) /\ HasArea(d.bbox)) =>
            /\ Len(mot.trackers) = 1 /\ mot.next_id = 1
            /\ mot.trackers[1].tracker.hits = k
            /\ OutIds = {mot.trackers[1].id}

C6_Witness ==
    /\ lastOp = "update" /\ FedOnly(DetA, 3)
    /\ mot.min_hits = 3 /\ mot.trackers[1].tracker.hits = mot.min_hits
    /\ OutIds = {0}

IsDefault(self) ==
    self.max_age = DefaultMaxAge /\ self.min_hits = DefaultMinHits
    /\ self.iou_threshold = DefaultIouThreshold

\* C7: on an empty default tracker, update() with bbox [100,100,200,200]
\* creates track 0; a following update() with bbox [105,105,205,205] is matched
\* to it: the output is the single track 0 with hits 2 and no track 1 exists.
C7_Scenario ==
    (lastOp = "update" /\ IsDefault(mot)) =>
        /\ history = << <<DetA>> >> =>
              Ids = {0} /\ lastCreated = <<0>> /\ mot.next_id = 1
        /\ history = << <<DetA>>, <<DetB>> >> =>
              /\ lastMatched = << <<1, 0>> >>
              /\ Len(results) = 1
              /\ results[1].track_id = 0 /\ results[1].hits = 2
              /\ Ids = {0} /\ mot.next_id = 1 /\ lastCreated = <<>>

C7_Witness ==
    /\ lastOp = "update" /\ IsDefault(mot)
    /\ history = << <<DetA>>, <<DetB>> >>
    /\ OutIds = {0}

\* the closed boxes share no interior point
Disjoint(b1, b2) ==
    b1[3] <= b2[1] \/ b2[3] <= b1[1] \/ b1[4] <= b2[2] \/ b2[4] <= b1[2]

AsSet(seq) == {seq[p] : p \in 1..Len(seq)}

\* C8: two detections with non-overlapping boxes fed to an empty tracker
\* create tracks 0 and 1; fed again in the opposite order, each is matched to
\* the track it created and no track is created.
C8_OrderIndependent ==
    \A d, e \in Dets :
        (lastOp = "update" /\ Disjoint(d.bbox, e.bbox)) =>
            /\ history = << <<d, e>> >> => lastCreated = <<0, 1>>
            /\ history = << <<d, e>>, <<e, d>> >> =>
                  /\ AsSet(lastMatched) = { <<1, 1>>, <<2, 0>> }
                  /\ lastCreated = <<>> /\ Ids = {0, 1}
                  /\ \E o \in Outs : o.track_id = 0 /\ o.bbox = d.bbox /\ o.hits = 2
                  /\ \E o \in Outs : o.track_id = 1 /\ o.bbox = e.bbox /\ o.hits = 2

\* C8 as amended: the same, for two boxes of positive width and height (and
\* 0 < iou_threshold <= 1).
C8_OrderIndependentWithArea ==
    \A d, e \in Dets :
        (lastOp = "update" /\ Disjoint(d.bbox, e.bbox)
            /\ HasArea(d.bbox) /\ HasArea(e.bbox)) =>
            /\ history = << <<d, e>> >> => lastCreated = <<0, 1>>
            /\ history = << <<d, e>>, <<e, d>> >> =>
                  /\ AsSet(lastMatched) = { <<1, 1>>, <<2, 0>> }
                  /\ lastCreated = <<>> /\ Ids = {0, 1}
                  /\ \E o \in Outs : o.track_id = 0 /\ o.bbox = d.bbox /\ o.hits = 2
                  /\ \E o \in Outs : o.track_id = 1 /\ o.bbox = e.bbox /\ o.hits = 2

C8_Witness ==
    /\ lastOp = "update"
    /\ history = << <<DetA, DetC>>, <<DetC, DetA>> >>
    /\ AsSet(lastMatched) = { <<1, 1>>, <<2, 0>> }

----------------------------------------------------------------------------
(* Properties of _iou *)

\* some point lies strictly inside both boxes; for integer corners it can be
\* taken with half-integer coordinates (px / 2, py / 2)
InteriorsOverlap(b1, b2) ==
    \E px, py \in 0..(2 * MaxCoord) :
        /\ 2 * b1[1] < px /\ px < 2 * b1[3] /\ 2 * b1[2] < py /\ py < 2 * b1[4]
        /\ 2 * b2[1] < px /\ px < 2 * b2[3] /\ 2 * b2[2] < py /\ py < 2 * b2[4]

\* C10: _iou(b, b) = 1 for every box of positive width and height, and
\* _iou = 0 for every two boxes whose interiors do not overlap, boxes that
\* only touch included.
C10_IouOneAndZero ==
    iouOut # "none" =>
        /\ (ba = bb /\ HasArea(ba)) => (iouOut[1] = iouOut[2] /\ iouOut[2] > 0)
        /\ ~InteriorsOverlap(ba, bb) => iouOut[1] = 0

C10_Witness ==
    /\ iouOut # "none"
    /\ ba = <<0, 0, 1, 1>> /\ bb = <<1, 0, 2, 1>>
    /\ iouOut = <<0, 2>>

\* C11: for every two integer boxes of which at least one has zero area or is
\* malformed (x2 < x1 or y2 < y1), _iou returns 0 and divides by no zero
\* union; a detection with such a box, offered by update() to an existing
\* track, is not matched to it.
C11_DegenerateBoxScoresZero ==
    /\ (iouOut # "none" /\ (~HasArea(ba) \/ ~HasArea(bb))) =>
            (iouOut[1] = 0 /\ iouOut[2] > 0)
    /\ (matchOut # "none" /\ ~HasArea(ba)) => matchOut = <<>>

C11_Witness ==
    /\ iouOut # "none" /\ matchOut # "none"
    /\ ba = <<2, 2, 0, 0>> /\ bb = <<0, 0, 2, 2>>
    /\ iouOut = <<0, 8>>
    /\ matchOut = <<>>

\* the unit pixel cells <<i, j>> a box with integer corners covers
CellsIn(b) ==
    {c \in (0..MaxCoord) \X (0..MaxCoord) :
        b[1] <= c[1] /\ c[1] < b[3] /\ b[2] <= c[2] /\ c[2] < b[4]}

WellFormed(b) == b[1] <= b[3] /\ b[2] <= b[4]

\* C12 as stated: the similarity score _iou returns is the overlapping area
\* of the two boxes divided by the area of the smaller of the two boxes.
C12_ScoreOverSmallerBox ==
    (iouOut # "none" /\ HasArea(ba) /\ HasArea(bb)) =>
        iouOut[1] * Min(Cardinality(CellsIn(ba)), Cardinality(CellsIn(bb)))
            = Cardinality(CellsIn(ba) \cap CellsIn(bb)) * iouOut[2]

\* C12 amended: for boxes with x1 <= x2 and y1 <= y2 the score is the
\* overlapping area divided by the area of the union of the two boxes, and 0
\* when the union has no area.
C12_ScoreOverUnion ==
    (iouOut # "none" /\ WellFormed(ba) /\ WellFormed(bb)) =>
        IF CellsIn(ba) \cup CellsIn(bb) = {}
        THEN iouOut[1] = 0
        ELSE iouOut[1] * Cardinality(CellsIn(ba) \cup CellsIn(bb))
                = Cardinality(CellsIn(ba) \cap CellsIn(bb)) * iouOut[2]

C12_Witness ==
    /\ iouOut # "none"
    /\ ba = <<0, 0, 1, 1>> /\ bb = <<0, 0, 2, 2>>
    /\ iouOut = <<1, 4>>

----------------------------------------------------------------------------
(* Properties of KalmanBoxTracker.__init__ *)

\* C13: constructing a KalmanBoxTracker with measurement_noise <= 0 fails at
\* construction, so every estimator that exists has R > 0 and no update()
\* call meets a singular innovation covariance S.
C13_NoiseValidated ==
    /\ kbt # NoKbt => kbt.R > 0
    /\ kerr = "none"

----------------------------------------------------------------------------
(* Properties of the matching loop *)

\* C14: every update() call terminates, whatever the detections, the tracks
\* and the configured iou_threshold: the greedy matching loop of
\* _match_detections reaches one of its break statements.
C14_MatchingTerminates == <>(gm.pc = "done")

----------------------------------------------------------------------------
(* Properties of create_tracker *)

PresetOf(self) == <<self.process_noise, self.measurement_noise, self.max_age>>

\* C15: create_tracker(name) returns a tracker with (process_noise,
\* measurement_noise, max_age) = (0.3, 0.2, 3) for "low", (0.1, 0.5, 5) for
\* "medium" and (0.05, 1.0, 8) for "high", with min_hits = 2 and
\* iou_threshold = 0.3; without an argument, or with any other name, it is
\* the "medium" configuration.  The tracker keeps it in every later call and
\* builds its estimators with these noise values.
C15_Presets ==
    preset.via = "create_tracker" =>
        /\ mot.min_hits = 2 /\ mot.iou_threshold = <<3, 10>>
        /\ preset.args = <<"low">> =>
               PresetOf(mot) = <<(3 * SCALE) \div 10, (2 * SCALE) \div 10, 3>>
        /\ preset.args = <<"high">> =>
               PresetOf(mot) = <<(5 * SCALE) \div 100, SCALE, 8>>
        /\ preset.args \notin {<<"low">>, <<"high">>} =>
               PresetOf(mot) = <<SCALE \div 10, (5 * SCALE) \div 10, 5>>
        /\ \A trk \in Tracks :
               /\ trk.tracker.R = mot.measurement_noise
               /\ trk.tracker.Qp = mot.process_noise

C15_Witness ==
    /\ preset.via = "create_tracker" /\ preset.args = <<"ultra">>
    /\ PresetOf(mot) = <<SCALE \div 10, (5 * SCALE) \div 10, 5>>
    /\ Tracks # {}

----------------------------------------------------------------------------
(* Properties of MaskSmoother *)

\* the input of the last update() call on ms
LastMask == msLog.input[1]
LastClassId == msLog.input[2]

\* the last call was an update() that found no prior state of its shape: the
\* first one after construction, after reset() or after a shape change
Bootstrapped == msLog.op = "update" /\ Bootstraps(msLog.before, LastMask)

\* C16 as stated: the first update() after construction, after reset() or
\* after a shape change depends on its input and the configuration only:
\* the smoothed state is the extracted binary mask, and the returned mask is
\* 255 where the binary value is >= threshold and 0 elsewhere.
C16_BootstrapIsThresholdedInput ==
    Bootstrapped =>
        /\ ms.prev_mask = Binary(LastMask, LastClassId)
        /\ ms.shape = LastMask.shape
        /\ msOut = [shape |-> LastMask.shape,
                    px |-> Threshold(Binary(LastMask, LastClassId), ms.threshold)]

\* C16 amended: as above, but the returned mask is that thresholded mask
\* after the morphological close and open when morph_kernel_size > 0.
C16_BootstrapIsCleanedThresholdedInput ==
    Bootstrapped =>
        /\ ms.prev_mask = Binary(LastMask, LastClassId)
        /\ ms.shape = LastMask.shape
        /\ msOut.shape = LastMask.shape
        /\ ms.morph_kernel_size = 0 =>
               msOut.px = Threshold(Binary(LastMask, LastClassId), ms.threshold)
        /\ ms.morph_kernel_size > 0 =>
               msOut.px = MorphOpen(MorphClose(
                              Threshold(Binary(LastMask, LastClassId), ms.threshold),
                              ms.morph_kernel_size \div 2),
                              ms.morph_kernel_size \div 2)

C16_Witness ==
    /\ Bootstrapped
    /\ msLog.before.shape = <<1, 1>> /\ msLog.before.prev_mask = <<SCALE>>
    /\ LastMask.px = <<0, 2>> /\ LastClassId = <<>>
    /\ ms.morph_kernel_size = 0
    /\ msOut.px = <<0, 255>>

\* v lies between a and b, ends included
Between(a, v, b) == Min(a, b) <= v /\ v <= Max(a, b)

\* the last update() blended into the prior state, and every pixel of the
\* smoothed state lies between its old value and its binary input value
MovedToward ==
    (msLog.op = "update" /\ ~Bootstraps(msLog.before, LastMask)) =>
        \A p \in 1..Len(ms.prev_mask) :
            Between(msLog.before.prev_mask[p], ms.prev_mask[p],
                    Binary(LastMask, LastClassId)[p])

\* the last update() call returned what the one before it returned
OutputRepeated == msOut = msLog.outBefore

\* alpha is a weight: 0 < alpha <= 1
AlphaIsWeight == 0 < ms.alpha /\ ms.alpha <= SCALE

\* C17 as stated: from any reachable state, when update() is called again
\* and again with the same mask and class_id, every pixel of the smoothed
\* state moves monotonically toward its binary input value, and from some
\* call on every such call returns the mask the call before it returned.
C17_Converges ==
    /\ []MovedToward
    /\ <>[](msLog.repeated => OutputRepeated)

\* C17 amended: the same for a smoother whose alpha satisfies 0 < alpha <= 1.
C17_ConvergesForWeights ==
    /\ [](AlphaIsWeight => MovedToward)
    /\ <>[]((AlphaIsWeight /\ msLog.repeated) => OutputRepeated)

\* the second of two calls with the same mask flips the output: the pixel
\* decays from 1.0 over 0.5 to 0.25 and crosses the threshold 0.5
C17_Witness ==
    /\ msLog.repeated /\ AlphaIsWeight
    /\ LastMask.px = <<0>>
    /\ msLog.before.prev_mask = <<SCALE \div 2>> /\ ms.prev_mask = <<SCALE \div 4>>
    /\ msLog.outBefore.px = <<255>> /\ msOut.px = <<0>>

\* C18: every update() returns a mask of the shape of its input whose pixels
\* are 0 or 255.  With morph_kernel_size = 0, when the previous call stored a
\* smoothed state of that shape, a pixel is 255 exactly when
\* alpha * binary + (1 - alpha) * prev >= threshold, prev being that stored
\* value, and this blend is stored as the new prior state.
C18_OutputIsBinaryBlend ==
    msLog.op = "update" =>
        /\ msOut.shape = LastMask.shape
        /\ Len(msOut.px) = Len(LastMask.px)
        /\ \A p \in 1..Len(msOut.px) : msOut.px[p] \in {0, 255}
        /\ (ms.morph_kernel_size = 0 /\ ~Bootstraps(msLog.before, LastMask)) =>
               \A p \in 1..Len(msOut.px) :
                   \E b \in {IF LastClassId = <<>>
                              THEN (IF LastMask.px[p] > 0 THEN SCALE ELSE 0)
                              ELSE (IF LastMask.px[p] = LastClassId[1] THEN SCALE ELSE 0)} :
                   \E v \in {RoundDiv(ms.alpha * b
                                       + (SCALE - ms.alpha) * msLog.before.prev_mask[p],
                                       SCALE)} :
                       /\ (msOut.px[p] = 255) <=> (v >= ms.threshold)
                       /\ ms.prev_mask[p] = v

\* a pixel seen set once and then clear: 0.7 * 0 + 0.3 * 1.0 = 0.3 < 0.5
C18_Witness ==
    /\ msLog.op = "update" /\ ~Bootstraps(msLog.before, LastMask)
    /\ ms.morph_kernel_size = 0 /\ ms.alpha = (7 * SCALE) \div 10
    /\ msLog.before.prev_mask = <<SCALE>> /\ LastMask.px = <<0>>
    /\ ms.prev_mask = <<(3 * SCALE) \div 10>>
    /\ msOut.px = <<0>>

----------------------------------------------------------------------------
(* Properties of StereoMaskSmoother *)

\* what the last update() call did for one side: its mask, the result for
\* it, and the side's smoother before, after, and standalone
SideRule(mask, out, before, after, alone, aloneOut) ==
    /\ mask = NoneMask => (out = NoneMask /\ after = before)
    /\ mask # NoneMask => out = aloneOut
    /\ after = alone

\* C19: the two sides of a StereoMaskSmoother never influence each other.
\* update() with None for a side returns None for it and leaves its state as
\* it was; the result for a side given a mask, and the side's state, are
\* those of a standalone MaskSmoother of the same configuration that was fed
\* that side's masks only; reset() resets both sides.
C19_SidesAreIndependent ==
    /\ smsLog.op = "update" =>
           /\ SideRule(smsLog.input[1], smsOut[1], smsLog.before.left, sms.left,
                       solo.left, soloOut.left)
           /\ SideRule(smsLog.input[2], smsOut[2], smsLog.before.right, sms.right,
                       solo.right, soloOut.right)
    /\ smsLog.op = "reset" =>
           /\ sms.left.prev_mask = <<>> /\ sms.left.shape = <<>>
           /\ sms.right.prev_mask = <<>> /\ sms.right.shape = <<>>

\* the left side holds a state and is given None while the right side gets
\* its first mask
C19_Witness ==
    /\ smsLog.op = "update"
    /\ smsLog.input[1] = NoneMask /\ smsLog.input[2].px = <<1, 0>>
    /\ smsLog.before.left.prev_mask = <<SCALE>> /\ smsLog.before.right.prev_mask = <<>>
    /\ sms.left.prev_mask = <<SCALE>> /\ sms.right.prev_mask = <<SCALE, 0>>
    /\ smsOut[1] = NoneMask /\ smsOut[2].shape = <<1, 2>>

----------------------------------------------------------------------------
(* Properties of the TrackedBox fields *)

\* C20: in every TrackedBox update() returns, age is the number of frames
\* since the track's last detection, 0 for a track matched in this call, and
\* hits is the number of consecutive detections of the track.
C20_AgeAndHitsAsDocumented ==
    lastOp = "update" =>
        \A o \in Outs :
            /\ o.age = misses[o.track_id]
            /\ o.hits = streak[o.track_id]

----------------------------------------------------------------------------
(* Properties of the association step *)

\* the call the last update() made: its detections, and the tracks it found
\* as they were after predict()
LastDetections == history[Len(history)]
Predicted == PredictAll(atCall.trackers)

\* the IoU of detection i and the predicted bbox of the j-th track
PairIou(i, j) ==
    iou(LastDetections[i].bbox, state_to_bbox(Predicted[j].tracker))

\* the |detections| x |tracks| IoU matrix as a function of <<i, j>>
ReferenceMatrix ==
    [c \in (1..Len(LastDetections)) \X (1..Len(Predicted)) |-> PairIou(c[1], c[2])]

\* the cells holding the global maximum of A
MaxCells(A) == {c \in DOMAIN A : \A d \in DOMAIN A : ~RatLess(A[c], A[d])}

\* A with the row and the column of cell c set to 0
Cleared(A, c) ==
    [d \in DOMAIN A |-> IF d[1] = c[1] \/ d[2] = c[2] THEN <<0, 1>> ELSE A[d]]

\* the reference greedy procedure: every list of cells it can record, for any
\* choice among equal maxima (it ends for a threshold above 0)
RECURSIVE ReferenceRuns(_, _, _)
ReferenceRuns(A, threshold, recorded) ==
    IF DOMAIN A = {} THEN {recorded}
    ELSE IF \E c \in MaxCells(A) : RatLess(A[c], threshold) THEN {recorded}
    ELSE UNION { ReferenceRuns(Cleared(A, c), threshold, Append(recorded, c)) :
                     c \in MaxCells(A) }

\* a list of cells as (detection index, track id) pairs
AsPairs(run) == [p \in 1..Len(run) |-> <<run[p][1], Predicted[run[p][2]].id>>]

\* C21: the matched pairs of an update() call are those of the reference
\* greedy procedure (take the global maximum, stop below iou_threshold,
\* record the pair, zero its row and column) on the IoU matrix of the
\* detections and the predicted track boxes; every recorded pair has
\* IoU >= iou_threshold, and a detection below iou_threshold against every
\* track is unmatched.
C21_MatchingIsGreedy ==
    lastOp = "update" =>
        /\ lastMatched \in
              { AsPairs(run) :
                  run \in ReferenceRuns(ReferenceMatrix, atCall.iou_threshold, <<>>) }
        /\ \A p \in 1..Len(lastMatched) :
              \E j \in 1..Len(Predicted) :
                  /\ Predicted[j].id = lastMatched[p][2]
                  /\ ~RatLess(PairIou(lastMatched[p][1], j), atCall.iou_threshold)
        /\ \A i \in 1..Len(LastDetections) :
              (\A j \in 1..Len(Predicted) :
                   RatLess(PairIou(i, j), atCall.iou_threshold))
                  => \A p \in 1..Len(lastMatched) : lastMatched[p][1] # i

C21_Witness ==
    /\ lastOp = "update"
    /\ Len(Predicted) = 2 /\ Len(LastDetections) = 2
    /\ Len(lastMatched) = 1 /\ Len(lastCreated) = 1
    /\ \E i \in 1..2 : \E j \in 1..2 :
          <<0, 1>> # PairIou(i, j) /\ RatLess(PairIou(i, j), <<1, 1>>)
             /\ ~RatLess(PairIou(i, j), atCall.iou_threshold)
             /\ \A p \in 1..Len(lastMatched) : lastMatched[p][1] # i

\* among the cells holding the maximum of A, the one with the lowest
\* detection index and, among those, the lowest track id
FirstCell(A) ==
    CHOOSE c \in MaxCells(A) :
        \A d \in MaxCells(A) :
            \/ c[1] < d[1]
            \/ c[1] = d[1] /\ Predicted[c[2]].id <= Predicted[d[2]].id

RECURSIVE FirstRun(_, _, _)
FirstRun(A, threshold, recorded) ==
    IF DOMAIN A = {} THEN recorded
    ELSE IF RatLess(A[FirstCell(A)], threshold) THEN recorded
    ELSE FirstRun(Cleared(A, FirstCell(A)), threshold,
                  Append(recorded, FirstCell(A)))

\* C22: when several (detection, track) pairs share the maximal IoU in a
\* matching iteration, the pair taken is the one with the lowest detection
\* index and, among those, the track first in the tracker's order, which is
\* the lowest track id; the pairs are a function of the inputs.
C22_FirstMaximumWins ==
    lastOp = "update" =>
        /\ \A j, k \in 1..Len(Predicted) : j < k => Predicted[j].id < Predicted[k].id
        /\ lastMatched = AsPairs(FirstRun(ReferenceMatrix, atCall.iou_threshold, <<>>))

C22_Witness ==
    /\ lastOp = "update"
    /\ Len(lastMatched) = 2
    /\ \E c, d \in MaxCells(ReferenceMatrix) : c[1] = d[1] /\ c[2] # d[2]
    /\ \E c, d \in MaxCells(ReferenceMatrix) : c[1] # d[1] /\ c[2] = d[2]
    /\ \A c \in MaxCells(ReferenceMatrix) :
          ~RatLess(ReferenceMatrix[c], atCall.iou_threshold)

----------------------------------------------------------------------------
(* Properties of one update() call, from the object it found (atCall) to the
   object it left (mot) *)

\* the tracks the call found
Found == {atCall.trackers[j] : j \in 1..Len(atCall.trackers)}
MatchedIds == {lastMatched[p][2] : p \in 1..Len(lastMatched)}

\* C23: a matched track takes the class_name and the confidence of its
\* detection, whatever its label was, and keeps its track_id; the class_name
\* and confidence of an unmatched track are not changed by the call.
C23_LabelFollowsDetection ==
    lastOp = "update" =>
        /\ \A p \in 1..Len(lastMatched) :
              \E o \in Found : \E t \in Tracks :
                  /\ o.id = lastMatched[p][2] /\ t.id = o.id
                  /\ t.tracker.hits = o.tracker.hits + 1
                  /\ t.class_name = LastDetections[lastMatched[p][1]].class_name
                  /\ t.confidence = LastDetections[lastMatched[p][1]].confidence
        /\ \A o \in Found : \A t \in Tracks :
              (t.id = o.id /\ o.id \notin MatchedIds) =>
                  t.class_name = o.class_name /\ t.confidence = o.confidence

C23_Witness ==
    /\ lastOp = "update"
    /\ \E p \in 1..Len(lastMatched) : \E o \in Found :
          /\ o.id = lastMatched[p][2]
          /\ o.class_name # LastDetections[lastMatched[p][1]].class_name
          /\ o.confidence # LastDetections[lastMatched[p][1]].confidence
    /\ \E o \in Found : \E t \in Tracks : t.id = o.id /\ o.id \notin MatchedIds

\* C24: in each update() call, every track the call found has its age
\* increased by exactly 1; a matched track ends with time_since_update = 0
\* and hits increased by exactly 1; an unmatched track ends with
\* time_since_update increased by exactly 1 and hits unchanged; a track
\* created in the call ends with hits = 1, age = 0, time_since_update = 0 and
\* zero velocity.
C24_CountersPerCall ==
    lastOp = "update" =>
        /\ \A o \in Found : \A t \in Tracks :
              t.id = o.id =>
                  /\ t.tracker.age = o.tracker.age + 1
                  /\ o.id \in MatchedIds =>
                        /\ t.tracker.time_since_update = 0
                        /\ t.tracker.hits = o.tracker.hits + 1
                  /\ o.id \notin MatchedIds =>
                        /\ t.tracker.time_since_update =
                               o.tracker.time_since_update + 1
                        /\ t.tracker.hits = o.tracker.hits
        /\ \A o \in Found : o.id \in MatchedIds => o.id \in Ids
        /\ \A c \in 1..Len(lastCreated) :
              /\ \A o \in Found : o.id # lastCreated[c]
              /\ \E t \in Tracks :
                    /\ t.id = lastCreated[c]
                    /\ t.tracker.hits = 1 /\ t.tracker.age = 0
                    /\ t.tracker.time_since_update = 0
                    /\ t.tracker.vel = <<0, 0, 0, 0>>

C24_Witness ==
    /\ lastOp = "update"
    /\ Len(lastCreated) >= 1
    /\ \E o \in Found : o.id \in MatchedIds /\ o.tracker.time_since_update >= 1
    /\ \E o \in Found : o.id \notin MatchedIds /\ o.id \in Ids

\* C25: after every update() call, for every configured max_age, no track
\* of the collection has time_since_update > max_age.
C25_NoStaleTrack ==
    lastOp = "update" =>
        \A t \in Tracks : t.tracker.time_since_update <= mot.max_age

\* C25 as amended: the same, for every configured max_age >= 0.
C25_NoStaleTrackForNaturalMaxAge ==
    (lastOp = "update" /\ mot.max_age >= 0) =>
        \A t \in Tracks : t.tracker.time_since_update <= mot.max_age

C25_Witness ==
    /\ lastOp = "update" /\ mot.max_age >= 1
    /\ evicted # {}
    /\ \E t \in Tracks : t.tracker.time_since_update = mot.max_age

----------------------------------------------------------------------------
(* Properties of the binary mask MaskSmoother.update() extracts *)

\* _prev_mask after the last update() call if the call extracted binary: the
\* blend of binary with the prior, which is binary itself on a bootstrap
StoredFor(binary) ==
    Blend(msLog.before, binary,
          IF Bootstraps(msLog.before, msLog.input[1]) THEN binary
          ELSE msLog.before.prev_mask)

\* 1.0 where the pixel equals class_id, or differs from 0 without class_id
NonZeroPixels(mask, class_id) ==
    [p \in 1..Len(mask.px) |->
        IF class_id # <<>>
        THEN (IF mask.px[p] = class_id[1] THEN SCALE ELSE 0)
        ELSE (IF mask.px[p] = 0 THEN 0 ELSE SCALE)]

\* 1.0 where the pixel equals class_id, or is above 0 without class_id
PositivePixels(mask, class_id) ==
    [p \in 1..Len(mask.px) |->
        IF class_id # <<>>
        THEN (IF mask.px[p] = class_id[1] THEN SCALE ELSE 0)
        ELSE (IF mask.px[p] >= 1 THEN SCALE ELSE 0)]

\* C26: without class_id a pixel of the extracted binary mask is 1 exactly
\* when the input pixel is not 0, for every integer value, negative ones
\* included; with class_id (0 included) exactly when the pixel equals it.
C26_BinaryIsNonZero ==
    msLog.op = "update" =>
        ms.prev_mask = StoredFor(NonZeroPixels(msLog.input[1], msLog.input[2]))

\* C26 as amended: without class_id a pixel of the binary mask is 1 exactly
\* when the input pixel is greater than 0; with class_id (0 included) exactly
\* when the pixel equals it.
C26_BinaryIsPositive ==
    msLog.op = "update" =>
        ms.prev_mask = StoredFor(PositivePixels(msLog.input[1], msLog.input[2]))

C26_Witness ==
    /\ msLog.op = "update"
    /\ msLog.input = <<[shape |-> <<1, 2>>, px |-> <<-1, 2>>], <<>>>>
    /\ Bootstraps(msLog.before, msLog.input[1])
    /\ ms.prev_mask = <<0, SCALE>>

----------------------------------------------------------------------------
(* Properties of what _match_detections returns *)

GmMatchedDets == {gm.matched[p][1] : p \in 1..Len(gm.matched)}
GmMatchedIds == {gm.matched[p][2] : p \in 1..Len(gm.matched)}

\* C27: whenever _match_detections returns, no detection index and no track
\* id occurs in more than one matched pair, there are at most
\* min(|detections|, |tracks|) pairs, the matched and unmatched detection
\* indices partition the indices of the detections list and the matched and
\* unmatched track ids partition the ids of the collection.
C27_MatchingIsOneToOne ==
    gm.pc = "done" =>
        /\ \A p, q \in 1..Len(gm.matched) :
              p # q => /\ gm.matched[p][1] # gm.matched[q][1]
                       /\ gm.matched[p][2] # gm.matched[q][2]
        /\ Len(gm.matched) <= Min(Len(gm.detections), Len(gm.self.trackers))
        /\ GmMatchedDets \cup gm.unmatched_dets = 1..Len(gm.detections)
        /\ GmMatchedDets \cap gm.unmatched_dets = {}
        /\ GmMatchedIds \cup gm.unmatched_tracks = TrackIds(gm.self.trackers)
        /\ GmMatchedIds \cap gm.unmatched_tracks = {}

C27_Witness ==
    /\ gm.pc = "done"
    /\ Len(gm.detections) = 2 /\ Len(gm.self.trackers) = 2
    /\ Len(gm.matched) = 1
    /\ Cardinality(gm.unmatched_dets) = 1 /\ Cardinality(gm.unmatched_tracks) = 1

----------------------------------------------------------------------------
(* Properties of what one update() call does with its detections *)

LastMatchedDets == {lastMatched[p][1] : p \in 1..Len(lastMatched)}

\* the indices of the detections the call matched to no track, ascending
LastUnmatchedDets ==
    SelectSeq([i \in 1..Len(LastDetections) |-> i],
              LAMBDA i : i \notin LastMatchedDets)

\* C28: after every update(detections) call the number of tracks with
\* time_since_update = 0 equals len(detections): each detection updated
\* exactly one existing track or created exactly one new track, never both
\* and never neither; the returned list has at least len(detections)
\* entries; with an empty list no track is created and the id counter is
\* unchanged.
C28_OneTrackPerDetection ==
    lastOp = "update" =>
        /\ Cardinality({j \in 1..Len(mot.trackers) :
                           mot.trackers[j].tracker.time_since_update = 0})
              = Len(LastDetections)
        /\ Cardinality(LastMatchedDets) = Len(lastMatched)
        /\ Cardinality(MatchedIds) = Len(lastMatched)
        /\ MatchedIds \subseteq TrackIds(atCall.trackers)
        /\ Len(lastCreated) = Len(LastUnmatchedDets)
        /\ \A k \in 1..Len(lastCreated) :
              /\ lastCreated[k] = atCall.next_id + k - 1
              /\ \E t \in Tracks :
                    /\ t.id = lastCreated[k]
                    /\ t.tracker.pos = Measure(LastDetections[LastUnmatchedDets[k]].bbox)
                    /\ t.class_name = LastDetections[LastUnmatchedDets[k]].class_name
        /\ mot.next_id = atCall.next_id + Len(lastCreated)
        /\ Len(results) >= Len(LastDetections)
        /\ LastDetections = <<>> =>
              lastCreated = <<>> /\ mot.next_id = atCall.next_id

C28_Witness ==
    /\ lastOp = "update"
    /\ Len(lastMatched) = 1 /\ Len(lastCreated) = 1
    /\ Len(mot.trackers) > Len(LastDetections)
    /\ Len(results) = Len(LastDetections)

----------------------------------------------------------------------------
(* Invariants of the counters *)

\* the number of tracks created since construction or the last reset()
CreatedSinceReset == Cardinality({q \in 1..Len(issued) : issued[q][1] = epoch})

\* C29: in every reachable state every track of the collection has
\* hits >= 1, time_since_update >= 0 and hits + time_since_update <= age + 1;
\* hits never decreases over a track's life; every track id of the collection
\* is smaller than the id counter, which equals the number of tracks created
\* since construction or the last reset().
C29_CounterInvariants ==
    /\ \A t \in Tracks :
          /\ t.tracker.hits >= 1
          /\ t.tracker.time_since_update >= 0
          /\ t.tracker.hits + t.tracker.time_since_update <= t.tracker.age + 1
          /\ t.id < mot.next_id
    /\ mot.next_id = CreatedSinceReset
    /\ lastOp = "update" =>
          \A o \in Found : \A t \in Tracks :
              t.id = o.id => t.tracker.hits >= o.tracker.hits

C29_Witness ==
    /\ lastOp = "update" /\ epoch >= 1
    /\ mot.next_id = 2
    /\ \E t \in Tracks :
          /\ t.tracker.hits = 1 /\ t.tracker.time_since_update = 1
          /\ t.tracker.age = 1
    /\ \E q \in 1..Len(issued) : issued[q][1] < epoch

----------------------------------------------------------------------------
(* Properties of confirmed tracks *)

\* C30: a track that has reached hits >= min_hits is in the output of every
\* update() call from then until the call that evicts it, calls that match
\* no detection to it included: it is reported, with the bbox of its
\* predicted state, for max_age consecutive calls without a matching
\* detection, and is updated under the same track_id when a detection
\* matches it before eviction.
C30_ConfirmedTrackIsReported ==
    lastOp = "update" =>
        /\ \A t \in Tracks :
              t.tracker.hits >= mot.min_hits => t.id \in OutIds
        /\ \A o \in Found :
              o.tracker.hits >= mot.min_hits =>
                  \/ /\ o.id \notin Ids /\ o.id \notin OutIds
                     /\ o.id \in evicted /\ o.id \notin MatchedIds
                     /\ misses[o.id] = mot.max_age + 1
                  \/ /\ o.id \in Ids /\ o.id \notin MatchedIds
                     /\ misses[o.id] <= mot.max_age
                     /\ \E r \in Outs :
                           /\ r.track_id = o.id
                           /\ r.hits = o.tracker.hits
                           /\ r.bbox = state_to_bbox(predict(o.tracker))
                  \/ /\ o.id \in Ids /\ o.id \in MatchedIds
                     /\ misses[o.id] = 0
                     /\ \E r \in Outs :
                           r.track_id = o.id /\ r.hits = o.tracker.hits + 1

\* a confirmed moving track reported at its extrapolated place after max_age
\* missed calls
C30_Witness ==
    /\ lastOp = "update" /\ mot.max_age >= 1
    /\ \E o \in Found : \E r \in Outs :
          /\ r.track_id = o.id /\ o.id \notin MatchedIds
          /\ o.tracker.hits >= mot.min_hits
          /\ misses[o.id] = mot.max_age
          /\ r.bbox = state_to_bbox(predict(o.tracker))
          /\ r.bbox # state_to_bbox(o.tracker)

====
